---- MODULE Spec2Model ----
(***************************************************************************)
(* Drop-shadow rendering of juce_graphics (the DropShadow part of          *)
(* src/modules/juce_graphics/fonts/juce_Typeface.h, lines 209-361):        *)
(* the 3-tap blur, DropShadow::drawForImage / drawForPath /                *)
(* drawForRectangle and DropShadowEffect.                                  *)
(*                                                                         *)
(* Pixel memory is a function from byte offsets 0..N-1 to 0..255.          *)
(* Floating point lengths of drawForRectangle are kept in half pixels,     *)
(* float products of applyEffect in quarter units.                         *)
(***************************************************************************)
EXTENDS Integers, Sequences, FiniteSets

VARIABLES
    shadow,   \* the DropShadow in use (DropShadowEffect::shadow): colour, radius, offset
    image,    \* the caller's Image handle
    heap,     \* reference counted pixel buffers: id -> [data, refs]
    g,        \* the destination Graphics context: clip, fill and the calls made on it
    path,     \* the Path handed to drawForPath (its float bounds, in half pixels)
    target,   \* the Rectangle<int> handed to drawForRectangle
    call      \* the last operation performed, its arguments and what it did internally

vars == <<shadow, image, heap, g, path, target, call>>

(***************************************************************************)
(* Bounds of the model.                                                    *)
(***************************************************************************)
MaxNum == 4        \* longest line handed to one blurDataTriplets pass
MaxDelta == 2      \* largest element stride of a line
MaxPasses == 2     \* passes applied in a row to one line
MaxRadius == 2     \* largest shadow radius

\* pixel values a line is built from
LinePix == {0, 1, 255}

(***************************************************************************)
(* blurDataTriplets (lines 209-227), executed on a memory `mem` with the   *)
(* pointer d kept as an offset.  The state st carries the memory, every    *)
(* offset read or written, and every value handed to the (uint8) cast.     *)
(***************************************************************************)
Rd(mem, i) == IF i \in DOMAIN mem THEN mem[i] ELSE 0

Wr(mem, i, v) == IF i \in DOMAIN mem THEN [mem EXCEPT ![i] = v] ELSE mem

uint8(v) == v % 256

\* d[0] = (uint8) (sum / 3), reading the offsets rs
Store(st, d, sum, rs) ==
    [mem |-> Wr(st.mem, d, uint8(sum \div 3)),
     touched |-> st.touched \cup rs \cup {d},
     casts |-> st.casts \cup {sum \div 3}]

\* a step that reads the left neighbour back from memory, after it was overwritten
blurStepInPlaceLeft(st, d, delta, last) ==
    Store(st, d, Rd(st.mem, d - delta) + Rd(st.mem, d) + Rd(st.mem, d + delta) + 1,
          {d - delta, d, d + delta})

\* lines 219-220: d[0] = (uint8) ((last + d[0] + d[delta] + 1) / 3)
blurStep(st, d, delta, last) ==
    Store(st, d, last + Rd(st.mem, d) + Rd(st.mem, d + delta) + 1, {d, d + delta})

\* the do { ... } while (--num > 0) loop of lines 217-224; newLast is d[0] before the store
RECURSIVE blurLoop(_, _, _, _, _)
blurLoop(st, d, num, delta, last) ==
    IF num - 1 > 0
      THEN blurLoop(blurStep(st, d, delta, last), d + delta, num - 1, delta, Rd(st.mem, d))
      ELSE [st |-> blurStep(st, d, delta, last), d |-> d + delta, last |-> Rd(st.mem, d)]

\* line 226: d[0] = (uint8) ((last + d[0] + 1) / 3)
blurLast(lp) == Store(lp.st, lp.d, lp.last + Rd(lp.st.mem, lp.d) + 1, {lp.d})

\* lines 211-212: last = d[0]; d[0] = (uint8) ((d[0] + d[delta] + 1) / 3)
blurFirst(mem, base, delta) ==
    Store([mem |-> mem, touched |-> {}, casts |-> {}], base,
          Rd(mem, base) + Rd(mem, base + delta) + 1, {base, base + delta})

blurDataTriplets(mem, base, num, delta) ==
    blurLast(blurLoop(blurFirst(mem, base, delta), base + delta, num - 2, delta,
                      Rd(mem, base)))

(***************************************************************************)
(* Lines: one buffer, a line of num elements delta apart starting at 0.    *)
(***************************************************************************)
NoShadow == [colour |-> [rgb |-> "black", alpha |-> 255], radius |-> 1,
             offset |-> [x |-> 0, y |-> 0]]
NoImage == [valid |-> FALSE, format |-> "UnknownFormat", width |-> 0, height |-> 0,
            lineStride |-> 0, buf |-> 0]
NoPath == [x |-> 0, y |-> 0, w |-> 0, h |-> 0]
NoClip == [x |-> 0, y |-> 0, w |-> 0, h |-> 0]
NewGraphics(clip) == [clip |-> clip, fill |-> [rgb |-> "black", alpha |-> 255], calls |-> <<>>]

LineSize(num, delta) == (num - 1) * delta + 2

\* the buffer of a line: element k at offset k * delta, every other byte holding pad
LineData(line, num, delta, pad) ==
    [i \in 0..(LineSize(num, delta) - 1) |->
        IF i % delta = 0 /\ i \div delta < num THEN line[i \div delta] ELSE pad]

InitLine ==
    /\ shadow = NoShadow
    /\ image = NoImage
    /\ path = NoPath
    /\ target = NoClip
    /\ g = NewGraphics(NoClip)
    /\ \E num \in 3..MaxNum, delta \in 1..MaxDelta :
         \E line \in [0..(num - 1) -> LinePix], pad \in LinePix :
            /\ heap = [b \in {1} |-> [data |-> LineData(line, num, delta, pad), refs |-> 1]]
            /\ call = [op |-> "none", num |-> num, delta |-> delta, passes |-> 0,
                       before |-> LineData(line, num, delta, pad), touched |-> {},
                       casts |-> {}]

\* one in-place pass over the line: blurDataTriplets (d, num, delta)
BlurLinePass ==
    /\ call.passes < MaxPasses
    /\ LET r == blurDataTriplets(heap[1].data, 0, call.num, call.delta)
       IN  /\ heap' = [heap EXCEPT ![1].data = r.mem]
           /\ call' = [op |-> "blurDataTriplets", num |-> call.num, delta |-> call.delta,
                       passes |-> call.passes + 1, before |-> heap[1].data,
                       touched |-> r.touched, casts |-> r.casts]
    /\ UNCHANGED <<shadow, image, g, path, target>>

NextLine == BlurLinePass

SpecLine == InitLine /\ [][NextLine]_vars

LineIdx == {k * call.delta : k \in 0..(call.num - 1)}

\* the value the 3-tap average of the values held before the pass puts at element k
Tap(k) ==
    LET v(j) == IF j \in 0..(call.num - 1) THEN call.before[j * call.delta] ELSE 0
    IN  (v(k - 1) + v(k) + v(k + 1) + 1) \div 3

\* C8: one in-place blurDataTriplets pass over a line of num >= 3 elements leaves at
\* every element k the value (left + self + right + 1) div 3 of the values held before
\* the pass (a missing neighbour counting as 0), touches no memory outside the line's
\* elements, leaves every other byte as it was, and casts no value above 255.
C8_PassIsThreeTapAverage ==
    (call.op = "blurDataTriplets" /\ call.num >= 3) =>
        /\ \A k \in 0..(call.num - 1) : heap[1].data[k * call.delta] = Tap(k)
        /\ call.touched \subseteq LineIdx
        /\ \A i \in DOMAIN heap[1].data \ LineIdx : heap[1].data[i] = call.before[i]
        /\ \A c \in call.casts : c \in 0..255

\* a pass ran over a line whose interior average differs from what an in-place read of
\* the already overwritten left neighbour would give
C8_Witness ==
    /\ call.op = "blurDataTriplets"
    /\ call.num >= 3
    /\ call.before[0] = 255
    /\ call.before[call.delta] = 0
    /\ heap[1].data[call.delta] = Tap(1)
    /\ Tap(1) # (Tap(0) + call.before[call.delta] + call.before[2 * call.delta] + 1) \div 3

(***************************************************************************)
(* blurSingleChannelImage (lines 229-247).  The log lists the calls of     *)
(* blurDataTriplets in the order they are made: <<"row", y>>, <<"col", x>>.*)
(***************************************************************************)
Merge(st, kind, idx, r) ==
    [mem |-> r.mem, touched |-> st.touched \cup r.touched,
     casts |-> st.casts \cup r.casts, log |-> Append(st.log, <<kind, idx>>)]

OnePass(st, kind, idx, base, num, delta) ==
    Merge(st, kind, idx, blurDataTriplets(st.mem, base, num, delta))

\* for (int i = repetitions; --i >= 0;) blurDataTriplets (...)
\* (Len(st.log) >= 0 makes TLC compute each pass before the next one starts)
RECURSIVE Repeat(_, _, _, _, _, _, _)
Repeat(st, kind, idx, base, num, delta, i) ==
    IF i - 1 >= 0 /\ Len(st.log) >= 0
      THEN Repeat(OnePass(st, kind, idx, base, num, delta), kind, idx, base, num, delta, i - 1)
      ELSE st

\* for (int y = 0; y < height; ++y) ... (data + lineStride * y, width, 1)
RECURSIVE RowLoop(_, _, _, _, _, _)
RowLoop(st, y, width, height, lineStride, repetitions) ==
    IF y < height /\ Len(st.log) >= 0
      THEN RowLoop(Repeat(st, "row", y, lineStride * y, width, 1, repetitions),
                   y + 1, width, height, lineStride, repetitions)
      ELSE st

\* for (int x = 0; x < width; ++x) ... (data + x, height, lineStride)
RECURSIVE ColLoop(_, _, _, _, _, _)
ColLoop(st, x, width, height, lineStride, repetitions) ==
    IF x < width /\ Len(st.log) >= 0
      THEN ColLoop(Repeat(st, "col", x, x, height, lineStride, repetitions),
                   x + 1, width, height, lineStride, repetitions)
      ELSE st

\* what one blur did: the memory left, the offsets touched, the calls of
\* blurDataTriplets in order, and the assertion of line 232
BlurResult(st, width, height, repetitions) ==
    [mem |-> st.mem, touched |-> st.touched, casts |-> st.casts, log |-> st.log,
     asserts |-> IF width > 2 /\ height > 2 THEN {} ELSE {"width > 2 && height > 2"},
     width |-> width, height |-> height, repetitions |-> repetitions]

blurSingleChannelImageData(data, width, height, lineStride, repetitions) ==
    BlurResult(ColLoop(RowLoop([mem |-> data, touched |-> {}, casts |-> {}, log |-> <<>>],
                               0, width, height, lineStride, repetitions),
                       0, width, height, lineStride, repetitions),
               width, height, repetitions)

\* a blur that runs radius / 2 passes instead of 2 * radius
blurSingleChannelImageHalved(img, hp, radius) ==
    blurSingleChannelImageData(hp[img.buf].data, img.width, img.height, img.lineStride,
                               radius \div 2)

\* blurSingleChannelImage (Image&, int radius): BitmapData bm (image, readWrite)
blurSingleChannelImage(img, hp, radius) ==
    blurSingleChannelImageData(hp[img.buf].data, img.width, img.height, img.lineStride,
                               2 * radius)

(***************************************************************************)
(* Image: a handle on a reference counted pixel buffer.                    *)
(***************************************************************************)
\* SoftwareImageType: lineStride = (pixelStride * jmax (1, w) + 3) & ~3, pixelStride 1
LineStrideFor(w) == ((w + 3) \div 4) * 4

Max(a, b) == IF a > b THEN a ELSE b
Min(a, b) == IF a < b THEN a ELSE b

FreshBuf(hp) == IF DOMAIN hp = {} THEN 1
                ELSE (CHOOSE b \in DOMAIN hp : \A c \in DOMAIN hp : c <= b) + 1

NewBuffer(hp, data) ==
    LET b == FreshBuf(hp)
    IN  [buf |-> b, heap |-> [c \in DOMAIN hp \cup {b} |->
                                 IF c = b THEN [data |-> data, refs |-> 1] ELSE hp[c]]]

\* the pixel offsets of an image of the given size
PixelAt(x, y, lineStride) == y * lineStride + x

\* the alpha channel of an image as single-channel data (opaque when it has none)
AlphaData(img, hp, stride) ==
    [i \in 0..(stride * img.height - 1) |->
        IF i % stride >= img.width THEN 0
        ELSE IF img.format = "ARGB"
               THEN hp[img.buf].data[PixelAt(i % stride, i \div stride, img.lineStride)]
               ELSE 255]

Converted(img, stride, nb) ==
    [img |-> [img EXCEPT !.format = "SingleChannel", !.lineStride = stride, !.buf = nb.buf],
     heap |-> nb.heap]

\* Image::convertedToFormat (SingleChannel): the image itself when it already has the
\* format (one more reference to the same buffer), else a new image holding the alpha
\* channel, or opaque when the source has none
convertedToFormat(img, hp) ==
    IF img.format = "SingleChannel"
      THEN [img |-> img, heap |-> [hp EXCEPT ![img.buf].refs = @ + 1]]
      ELSE Converted(img, LineStrideFor(img.width),
                     NewBuffer(hp, AlphaData(img, hp, LineStrideFor(img.width))))

\* Image::duplicateIfShared: if (getReferenceCount() > 1) image = image->clone()
Clone(ih, nb) == [img |-> [ih.img EXCEPT !.buf = nb.buf], heap |-> nb.heap]

duplicateIfShared(ih) ==
    IF ih.heap[ih.img.buf].refs > 1
      THEN Clone(ih, NewBuffer([ih.heap EXCEPT ![ih.img.buf].refs = @ - 1],
                               ih.heap[ih.img.buf].data))
      ELSE ih

\* ~Image: the handle goes out of scope
Release(img, hp) ==
    IF hp[img.buf].refs > 1
      THEN [hp EXCEPT ![img.buf].refs = @ - 1]
      ELSE [b \in DOMAIN hp \ {img.buf} |-> hp[b]]

(***************************************************************************)
(* Graphics: the calls made on the context, each drawImageAt with the      *)
(* pixels it was handed and the fill in force.                             *)
(***************************************************************************)
setColour(gc, colour) ==
    [gc EXCEPT !.fill = colour, !.calls = Append(@, [op |-> "setColour", colour |-> colour])]

drawImageAt(gc, img, hp, x, y, fillAlphaChannel) ==
    [gc EXCEPT !.calls = Append(@,
        [op |-> "drawImageAt", pixels |-> IF img.valid THEN hp[img.buf].data ELSE <<>>,
         width |-> img.width,
         height |-> img.height, lineStride |-> img.lineStride, format |-> img.format,
         x |-> x, y |-> y, fillAlphaChannelWithCurrentBrush |-> fillAlphaChannel,
         fill |-> gc.fill])]

(***************************************************************************)
(* DropShadow::drawForImage (lines 256-270).  The result is the set of     *)
(* outcomes: one, unless the blur runs outside its lines (width or height  *)
(* below 3), where what the shadow buffer holds afterwards is not defined. *)
(***************************************************************************)
RadiusAssert(sh) == IF sh.radius > 0 THEN {} ELSE {"radius > 0"}

Outcomes(bl) ==
    IF bl.asserts = {} THEN {bl.mem}
    ELSE {bl.mem} \cup {[i \in DOMAIN bl.mem |-> v] : v \in {0, 255}}

BlurEvent(si, bl) ==
    [refs |-> si.heap[si.img.buf].refs, log |-> bl.log, width |-> bl.width,
     height |-> bl.height, repetitions |-> bl.repetitions, touched |-> bl.touched,
     size |-> Cardinality(DOMAIN bl.mem), before |-> si.heap[si.img.buf].data]

\* lines 267-268 on the blurred buffer hp1, then the shadow image goes out of scope
Composite(sh, si, hp1, gc, asserts, ev) ==
    [heap |-> Release(si.img, hp1),
     g |-> drawImageAt(setColour(gc, sh.colour), si.img, hp1, sh.offset.x, sh.offset.y, TRUE),
     asserts |-> asserts, blurs |-> <<ev>>]

\* lines 265-268 for the shadow image si and the blur bl of it
DrawBlurred(sh, si, bl, gc) ==
    {Composite(sh, si, [si.heap EXCEPT ![si.img.buf].data = mem], gc,
               RadiusAssert(sh) \cup bl.asserts, BlurEvent(si, bl)) : mem \in Outcomes(bl)}

DrawShadowImage(sh, si, gc) ==
    DrawBlurred(sh, si, blurSingleChannelImage(si.img, si.heap, sh.radius), gc)

NotDrawn(sh, hp, gc) == {[heap |-> hp, g |-> gc, asserts |-> RadiusAssert(sh), blurs |-> <<>>]}

\* a drawForImage that blurs the converted image without duplicateIfShared
drawForImageNoDuplicate(sh, img, hp, gc) ==
    IF img.valid
      THEN DrawShadowImage(sh, convertedToFormat(img, hp), gc)
      ELSE NotDrawn(sh, hp, gc)

drawForImage(sh, img, hp, gc) ==
    IF img.valid
      THEN DrawShadowImage(sh, duplicateIfShared(convertedToFormat(img, hp)), gc)
      ELSE NotDrawn(sh, hp, gc)

(***************************************************************************)
(* Images and shadows the image specification draws from.                  *)
(***************************************************************************)
MaxDim == 3        \* largest width and height of a source image

ImgPix == {1, 255}
Formats == {"SingleChannel", "ARGB", "RGB"}

\* at most two lit pixels, every other pixel 0
LitMaps(w, h) ==
    LET P == (0..(w - 1)) \X (0..(h - 1))
        S == {{}} \cup {{p, q} : p \in P, q \in P}
    IN  UNION {[L -> ImgPix] : L \in S}

SourceStride(fmt, w) == IF fmt = "SingleChannel" THEN LineStrideFor(w) ELSE w

SourceData(fmt, w, h, lit) ==
    LET stride == SourceStride(fmt, w)
    IN  [i \in 0..(stride * h - 1) |->
            LET p == <<i % stride, i \div stride>>
            IN  IF p \in DOMAIN lit THEN lit[p] ELSE 0]

Offsets == {[x |-> 0, y |-> 0], [x |-> 3, y |-> -2]}

ImageShadows ==
    {[colour |-> [rgb |-> "black", alpha |-> 128], radius |-> r,
      offset |-> [x |-> 3, y |-> -2]] : r \in 1..MaxRadius}

InitImage ==
    /\ shadow \in ImageShadows
    /\ path = NoPath
    /\ target = NoClip
    /\ g = NewGraphics(NoClip)
    /\ call = [op |-> "none"]
    /\ \/ image = NoImage /\ heap = [b \in {} |-> 0]
       \/ \E fmt \in Formats, w \in 1..MaxDim, h \in 1..MaxDim, owners \in 1..2 :
            \E lit \in (IF fmt = "RGB" THEN {[p \in {} |-> 0]} ELSE LitMaps(w, h)) :
               /\ image = [valid |-> TRUE, format |-> fmt, width |-> w, height |-> h,
                           lineStride |-> SourceStride(fmt, w), buf |-> 1]
               /\ heap = [b \in {1} |-> [data |-> SourceData(fmt, w, h, lit),
                                         refs |-> owners]]

\* shadow.drawForImage (g, image) on a fresh context
DrawForImageCall ==
    /\ \E r \in drawForImage(shadow, image, heap, NewGraphics(NoClip)) :
         /\ heap' = r.heap
         /\ g' = r.g
         /\ call' = [op |-> "drawForImage", asserts |-> r.asserts, blurs |-> r.blurs,
                     heapBefore |-> heap]
    /\ UNCHANGED <<shadow, image, path, target>>

NextImage == DrawForImageCall

SpecImage == InitImage /\ [][NextImage]_vars

\* the pixels of a w x h image with a non-zero value in `data`
NonZero(data, w, h, lineStride) ==
    {p \in (0..(w - 1)) \X (0..(h - 1)) : data[PixelAt(p[1], p[2], lineStride)] # 0}

\* the blurred mask drawForImage handed to drawImageAt
Mask == g.calls[2]
Footprint == NonZero(Mask.pixels, Mask.width, Mask.height, Mask.lineStride)
Silhouette == NonZero(call.blurs[1].before, Mask.width, Mask.height, Mask.lineStride)
Drew == call.op = "drawForImage" /\ image.valid

\* C4: drawForImage leaves the caller's image buffer as it was (pixels and owners),
\* also when the source is single-channel and the converted image shares its buffer,
\* and the buffer it blurs has the shadow image as its only owner when the blur starts.
C4_SourceUntouched ==
    Drew =>
        /\ heap = call.heapBefore
        /\ \A i \in 1..Len(call.blurs) : call.blurs[i].refs = 1

\* a single-channel source was drawn and its blurred mask differs from the source pixels
C4_Witness ==
    /\ Drew
    /\ image.format = "SingleChannel"
    /\ image.width > 2 /\ image.height > 2
    /\ Mask.pixels # heap[image.buf].data

PassCount(log, e) == Cardinality({i \in 1..Len(log) : log[i] = e})

\* C7: a blur of radius r makes exactly 2*r passes over every row and exactly 2*r
\* passes over every column, and no row pass comes after a column pass.
C7_PassesPerLineAndOrder ==
    Drew =>
        \A n \in 1..Len(call.blurs) :
            /\ \A y \in 0..(call.blurs[n].height - 1) :
                 PassCount(call.blurs[n].log, <<"row", y>>) = 2 * shadow.radius
            /\ \A x \in 0..(call.blurs[n].width - 1) :
                 PassCount(call.blurs[n].log, <<"col", x>>) = 2 * shadow.radius
            /\ Len(call.blurs[n].log)
                 = 2 * shadow.radius * (call.blurs[n].width + call.blurs[n].height)
            /\ \A i \in 1..Len(call.blurs[n].log), j \in 1..Len(call.blurs[n].log) :
                 (i < j /\ call.blurs[n].log[i][1] = "col") => call.blurs[n].log[j][1] = "col"

\* a 3 x 3 image was blurred with radius 2: 12 row passes, then 12 column passes
C7_Witness ==
    /\ Drew
    /\ shadow.radius = 2
    /\ image.width = 3 /\ image.height = 3
    /\ Len(call.blurs[1].log) = 24
    /\ call.blurs[1].log[12] = <<"row", 2>>
    /\ call.blurs[1].log[13] = <<"col", 0>>

\* C9: every blur started by drawForImage or drawForPath satisfies the assertion
\* width > 2 && height > 2 of blurSingleChannelImage and touches no byte outside the
\* image buffer.
C9_BlurAssertionHolds ==
    call.op \in {"drawForImage", "drawForPath"} =>
        /\ "width > 2 && height > 2" \notin call.asserts
        /\ \A n \in 1..Len(call.blurs) :
             call.blurs[n].touched \subseteq 0..(call.blurs[n].size - 1)

AllPixels == (0..(Mask.width - 1)) \X (0..(Mask.height - 1))

Opaque == \A i \in DOMAIN call.blurs[1].before : call.blurs[1].before[i] \in {0, 255}

Floor2(a) == a \div 2
Ceil2(a) == -((-a) \div 2)

\* Rectangle<float>::getSmallestIntegerContainer
getSmallestIntegerContainer(b) ==
    [x |-> Floor2(b.x), y |-> Floor2(b.y),
     w |-> Ceil2(b.x + b.w) - Floor2(b.x), h |-> Ceil2(b.y + b.h) - Floor2(b.y)]

\* Rectangle + Point
Translated(r, o) == [r EXCEPT !.x = @ + o.x, !.y = @ + o.y]

\* Rectangle::expanded (delta): the size never goes below 0
expanded(r, delta) ==
    [x |-> r.x - delta, y |-> r.y - delta,
     w |-> Max(0, r.w + 2 * delta), h |-> Max(0, r.h + 2 * delta)]

\* Rectangle::getIntersection: the empty rectangle at the origin when they are apart
getIntersection(a, b) ==
    IF /\ Min(a.x + a.w, b.x + b.w) - Max(a.x, b.x) >= 0
       /\ Min(a.y + a.h, b.y + b.h) - Max(a.y, b.y) >= 0
      THEN [x |-> Max(a.x, b.x), y |-> Max(a.y, b.y),
            w |-> Min(a.x + a.w, b.x + b.w) - Max(a.x, b.x),
            h |-> Min(a.y + a.h, b.y + b.h) - Max(a.y, b.y)]
      ELSE [x |-> 0, y |-> 0, w |-> 0, h |-> 0]

(***************************************************************************)
(* DropShadow::drawForPath (lines 272-296).  The path is a filled          *)
(* rectangle; a pixel it covers by a fraction gets that fraction of 255.   *)
(***************************************************************************)
\* an area whose path bounds are expanded by the diameter 2 * (radius + 1)
AreaExpandedByDiameter(sh, pth, clip) ==
    getIntersection(expanded(Translated(getSmallestIntegerContainer(pth), sh.offset),
                             2 * (sh.radius + 1)),
                    expanded(clip, sh.radius + 1))

\* lines 276-278
Area(sh, pth, clip) ==
    getIntersection(expanded(Translated(getSmallestIntegerContainer(pth), sh.offset),
                             sh.radius + 1),
                    expanded(clip, sh.radius + 1))

\* the half pixels of pixel p (one axis) covered by the span [lo, lo + len]
Overlap(p, lo, len) == Max(0, Min(lo + len, 2 * p + 2) - Max(lo, 2 * p))

\* g2.setColour (white); g2.fillPath (path, translation (tx, ty)) on a cleared image
fillPath(pth, tx, ty, width, height, stride) ==
    [i \in 0..(stride * height - 1) |->
        IF i % stride >= width THEN 0
        ELSE (255 * Overlap(i % stride, pth.x + 2 * tx, pth.w)
                  * Overlap(i \div stride, pth.y + 2 * ty, pth.h)) \div 4]

\* Image renderedPath (SingleChannel, width, height, true), filled with the path
RenderedPath(sh, pth, area, hp, nb) ==
    [img |-> [valid |-> TRUE, format |-> "SingleChannel", width |-> area.w,
              height |-> area.h, lineStride |-> LineStrideFor(area.w), buf |-> nb.buf],
     heap |-> nb.heap]

RenderPath(sh, pth, area, hp) ==
    RenderedPath(sh, pth, area, hp,
        NewBuffer(hp, fillPath(pth, sh.offset.x - area.x, sh.offset.y - area.y,
                               area.w, area.h, LineStrideFor(area.w))))

PathEvents(r, sh, area) ==
    [heap |-> r.heap, g |-> r.g, asserts |-> r.asserts, blurs |-> r.blurs,
     images |-> <<[width |-> area.w, height |-> area.h]>>,
     fills |-> <<[tx |-> sh.offset.x - area.x, ty |-> sh.offset.y - area.y]>>,
     area |-> area]

\* lines 291-294: blur renderedPath, setColour, drawImageAt (area.getX(), area.getY())
DrawRendered(sh, rp, area, gc) ==
    {PathEvents(r, sh, area) :
        r \in DrawShadowImage([sh EXCEPT !.offset = [x |-> area.x, y |-> area.y]], rp, gc)}

PathSkipped(sh, area, hp, gc) ==
    {[heap |-> hp, g |-> gc, asserts |-> RadiusAssert(sh), blurs |-> <<>>,
      images |-> <<>>, fills |-> <<>>, area |-> area]}

\* a guard that lets areas of width or height 2 through
DrawPathInAreaFrom2(sh, pth, area, hp, gc) ==
    IF area.w >= 2 /\ area.h >= 2
      THEN DrawRendered(sh, RenderPath(sh, pth, area, hp), area, gc)
      ELSE PathSkipped(sh, area, hp, gc)

\* lines 280-295
DrawPathInArea(sh, pth, area, hp, gc) ==
    IF area.w > 2 /\ area.h > 2
      THEN DrawRendered(sh, RenderPath(sh, pth, area, hp), area, gc)
      ELSE PathSkipped(sh, area, hp, gc)

drawForPath(sh, pth, hp, gc) == DrawPathInArea(sh, pth, Area(sh, pth, gc.clip), hp, gc)

(***************************************************************************)
(* Paths, clips and shadows the path specification draws from.             *)
(***************************************************************************)
MaxCoord == 8      \* paths start within MaxCoord pixels of the origin

PathShadows ==
    {[colour |-> [rgb |-> "black", alpha |-> 128], radius |-> r, offset |-> o] :
        r \in 1..MaxRadius, o \in Offsets}

Paths == {[x |-> x, y |-> y, w |-> w, h |-> 1] :
             x \in (-2 * MaxCoord)..(2 * MaxCoord), y \in {-2 * MaxCoord, 0, 5}, w \in {0, 3}}

Clips == {[x |-> 0, y |-> 0, w |-> 0, h |-> 0], [x |-> 0, y |-> 0, w |-> 3, h |-> 2]}

InitPath ==
    /\ shadow \in PathShadows
    /\ path \in Paths
    /\ target = NoClip
    /\ image = NoImage
    /\ heap = [b \in {} |-> 0]
    /\ \E clip \in Clips : g = NewGraphics(clip)
    /\ call = [op |-> "none"]

\* shadow.drawForPath (g, path) on a context with no calls yet
DrawForPathCall ==
    /\ \E r \in drawForPath(shadow, path, heap, NewGraphics(g.clip)) :
         /\ heap' = r.heap
         /\ g' = r.g
         /\ call' = [op |-> "drawForPath", asserts |-> r.asserts, blurs |-> r.blurs,
                     images |-> r.images, fills |-> r.fills, area |-> r.area]
    /\ UNCHANGED <<shadow, image, path, target>>

NextPath == DrawForPathCall

SpecPath == InitPath /\ [][NextPath]_vars

\* the path's bounds and the clip share no point (all in half pixels)
PathOutsideClip ==
    \/ path.x >= 2 * (g.clip.x + g.clip.w)
    \/ path.x + path.w <= 2 * g.clip.x
    \/ path.y >= 2 * (g.clip.y + g.clip.h)
    \/ path.y + path.h <= 2 * g.clip.y

\* the path's bounds, moved by the offset, are at least 2 * radius pixels away from the
\* clip along x or along y
PathFarOutsideClip ==
    \/ path.x + 2 * shadow.offset.x >= 2 * (g.clip.x + g.clip.w + 2 * shadow.radius)
    \/ path.x + path.w + 2 * shadow.offset.x <= 2 * (g.clip.x - 2 * shadow.radius)
    \/ path.y + 2 * shadow.offset.y >= 2 * (g.clip.y + g.clip.h + 2 * shadow.radius)
    \/ path.y + path.h + 2 * shadow.offset.y <= 2 * (g.clip.y - 2 * shadow.radius)

\* C1 as stated: drawForPath with a path fully outside the clip bounds makes no call on
\* the destination context, for every radius > 0 and every offset.
C1_OutsideClipNoDraw ==
    (call.op = "drawForPath" /\ PathOutsideClip) => g.calls = <<>>

\* C1 amended: drawForPath makes no call on the destination context when the path's
\* bounds, moved by the offset, lie at least 2 * radius pixels outside the clip bounds
\* along x or y (the clip is itself expanded by radius + 1 before the intersection).
C1_FarOutsideClipNoDraw ==
    (call.op = "drawForPath" /\ PathFarOutsideClip) => g.calls = <<>>

\* a path exactly 2 * radius pixels right of a non-empty clip was handed over, no call
C1_Witness ==
    /\ call.op = "drawForPath"
    /\ g.clip.w > 0
    /\ path.x + 2 * shadow.offset.x = 2 * (g.clip.x + g.clip.w + 2 * shadow.radius)
    /\ path.y = 0
    /\ g.calls = <<>>

\* C6: when the intersected area is at most 2 wide or at most 2 high, drawForPath
\* allocates no image, fills no path, runs no blur and makes no call on the context;
\* when both exceed 2 it allocates one image of the area's size, fills and blurs it and
\* makes exactly one drawImageAt, at the area's top-left corner.
C6_DegenerateAreaSkipped ==
    call.op = "drawForPath" =>
        IF call.area.w <= 2 \/ call.area.h <= 2
          THEN /\ call.images = <<>> /\ call.fills = <<>> /\ call.blurs = <<>>
               /\ g.calls = <<>>
               /\ heap = [b \in {} |-> 0]
          ELSE /\ call.images = <<[width |-> call.area.w, height |-> call.area.h]>>
               /\ Len(call.fills) = 1 /\ Len(call.blurs) = 1
               /\ Cardinality({i \in 1..Len(g.calls) : g.calls[i].op = "drawImageAt"}) = 1
               /\ g.calls[Len(g.calls)].op = "drawImageAt"
               /\ g.calls[Len(g.calls)].x = call.area.x
               /\ g.calls[Len(g.calls)].y = call.area.y
               /\ g.calls[Len(g.calls)].width = call.area.w
               /\ g.calls[Len(g.calls)].height = call.area.h

\* an area exactly 2 wide was skipped
C6_Witness ==
    /\ call.op = "drawForPath"
    /\ call.area.w = 2 /\ call.area.h > 2
    /\ g.calls = <<>>

(***************************************************************************)
(* float arithmetic.  A float holds 24 significant bits; a value is kept   *)
(* as an integer count of a power-of-two unit (half pixels for rectangles, *)
(* quarters for the products of applyEffect), which rounds as the value.   *)
(***************************************************************************)
Abs(a) == IF a < 0 THEN -a ELSE a

\* the spacing of the floats around a value of magnitude a
RECURSIVE Quantum(_, _)
Quantum(a, q) == IF a \div q < 16777216 THEN q ELSE Quantum(a, 2 * q)

\* a / q rounded to the nearest integer, ties to even, times q
RoundTo(a, q) ==
    IF 2 * (a % q) < q THEN a - (a % q)
    ELSE IF 2 * (a % q) > q THEN a - (a % q) + q
    ELSE IF (a \div q) % 2 = 0 THEN a - (a % q) ELSE a - (a % q) + q

\* the float nearest to m (round to nearest, ties to even)
FloatRound(m) ==
    IF m < 0 THEN -RoundTo(-m, Quantum(-m, 1)) ELSE RoundTo(m, Quantum(m, 1))

fadd(a, b) == FloatRound(a + b)
fsub(a, b) == FloatRound(a - b)

\* Rectangle<int>::toFloat and Point<int>::toFloat, in half pixels
toFloat(r) == [k \in DOMAIN r |-> FloatRound(2 * r[k])]

\* Rectangle<float>::expanded (delta): the size never goes below 0
fexpanded(r, delta) ==
    [x |-> fsub(r.x, delta), y |-> fsub(r.y, delta),
     w |-> Max(0, fadd(r.w, 2 * delta)), h |-> Max(0, fadd(r.h, 2 * delta))]

\* Rectangle<float>::reduced (delta) is expanded (-delta)
reduced(r, delta) == fexpanded(r, -delta)

\* Rectangle<float> + Point<float>
fTranslated(r, o) == [r EXCEPT !.x = fadd(@, o.x), !.y = fadd(@, o.y)]

\* Rectangle::removeFromTop / Bottom / Left / Right: the strip removed and what is left
removeFromTop(r, amount) ==
    [removed |-> [r EXCEPT !.h = Min(amount, r.h)],
     rest |-> [r EXCEPT !.y = fadd(r.y, Min(amount, r.h)), !.h = fsub(r.h, Min(amount, r.h))]]

removeFromBottom(r, amount) ==
    [removed |-> [r EXCEPT !.y = fsub(fadd(r.y, r.h), Min(amount, r.h)),
                           !.h = Min(amount, r.h)],
     rest |-> [r EXCEPT !.h = fsub(r.h, Min(amount, r.h))]]

removeFromLeft(r, amount) ==
    [removed |-> [r EXCEPT !.w = Min(amount, r.w)],
     rest |-> [r EXCEPT !.x = fadd(r.x, Min(amount, r.w)), !.w = fsub(r.w, Min(amount, r.w))]]

removeFromRight(r, amount) ==
    [removed |-> [r EXCEPT !.x = fsub(fadd(r.x, r.w), Min(amount, r.w)),
                           !.w = Min(amount, r.w)],
     rest |-> [r EXCEPT !.w = fsub(r.w, Min(amount, r.w))]]

\* Rectangle::getRelativePoint (rx, ry), rx and ry being 0 or 1
getRelativePoint(r, rx, ry) == [x |-> fadd(r.x, r.w * rx), y |-> fadd(r.y, r.h * ry)]

\* n / d rounded to the nearest integer, ties to even (roundToInt)
RoundHalfEven(n, d) ==
    IF n < 0 THEN -(RoundTo(-n, d) \div d) ELSE RoundTo(n, d) \div d

(***************************************************************************)
(* DropShadow::drawForRectangle (lines 298-338).                           *)
(***************************************************************************)
setGradientFill(gc, cg) ==
    [gc EXCEPT !.calls = Append(@, [op |-> "setGradientFill", gradient |-> cg])]

fillRect(gc, r) == [gc EXCEPT !.calls = Append(@, [op |-> "fillRect", area |-> r])]

\* lines 298-307
drawShadowSection(gc, cg, area, isCorner, centreX, centreY, edgeX, edgeY) ==
    fillRect(setGradientFill(gc, [cg EXCEPT !.point1 = getRelativePoint(area, centreX, centreY),
                                            !.point2 = getRelativePoint(area, edgeX, edgeY),
                                            !.isRadial = isCorner]),
             area)

\* lines 311-314: colour -> transparent, with the stops 1 - i at alpha * i * i for
\* i = 0.05, 0.15 .. 0.95 (positions in twentieths)
Gradient(colour) ==
    [colour1 |-> colour, colour2 |-> [colour EXCEPT !.alpha = 0],
     point1 |-> [x |-> 0, y |-> 0], point2 |-> [x |-> 0, y |-> 0], isRadial |-> FALSE,
     stops |-> [k \in 1..10 |->
                  [position |-> 21 - 2 * k,
                   alpha |-> Min(255, RoundHalfEven(colour.alpha * (2 * k - 1) * (2 * k - 1),
                                                    400))]]]

\* line 316, in half pixels: (float) radius / 2.0f
radiusInset(sh) == FloatRound(2 * sh.radius) \div 2

\* line 317: (float) radius + radiusInset
expandedRadius(sh) == fadd(FloatRound(2 * sh.radius), radiusInset(sh))

\* line 319: targetArea.toFloat().reduced (radiusInset) + offset.toFloat()
ShadowCore(sh, targetArea) ==
    fTranslated(reduced(toFloat(targetArea), radiusInset(sh)), toFloat(sh.offset))

\* lines 321-323: r, top and bottom
Bands(r, E) ==
    [top |-> removeFromTop(r, E).removed,
     bottom |-> removeFromBottom(removeFromTop(r, E).rest, E).removed,
     r |-> removeFromBottom(removeFromTop(r, E).rest, E).rest]

\* the left corner or strip, the right one and what is left of a band
Thirds(band, E) ==
    [left |-> removeFromLeft(band, E).removed,
     right |-> removeFromRight(removeFromLeft(band, E).rest, E).removed,
     rest |-> removeFromRight(removeFromLeft(band, E).rest, E).rest]

\* lines 325-327
DrawTop(gc, cg, t) ==
    drawShadowSection(
        drawShadowSection(
            drawShadowSection(gc, cg, t.left, TRUE, 1, 1, 0, 1),
            cg, t.right, TRUE, 0, 1, 1, 1),
        cg, t.rest, FALSE, 0, 1, 0, 0)

\* lines 329-331
DrawBottom(gc, cg, b) ==
    drawShadowSection(
        drawShadowSection(
            drawShadowSection(gc, cg, b.left, TRUE, 1, 0, 0, 0),
            cg, b.right, TRUE, 0, 0, 1, 0),
        cg, b.rest, FALSE, 0, 0, 0, 1)

\* lines 333-334
DrawSides(gc, cg, m) ==
    drawShadowSection(drawShadowSection(gc, cg, m.left, FALSE, 1, 0, 0, 0),
                      cg, m.right, FALSE, 0, 0, 1, 0)

\* lines 325-337 for the bands of r
DrawRegions(sh, gc, cg, area, bands, E) ==
    fillRect(setColour(DrawSides(DrawBottom(DrawTop(gc, cg, Thirds(bands.top, E)),
                                            cg, Thirds(bands.bottom, E)),
                                 cg, Thirds(bands.r, E)),
                       sh.colour),
             area)

\* a drawForRectangle that expands the shadow core by radius instead of expandedRadius
drawForRectangleExpandedByRadius(sh, targetArea, gc) ==
    DrawRegions(sh, gc, Gradient(sh.colour), ShadowCore(sh, targetArea),
                Bands(fexpanded(ShadowCore(sh, targetArea), FloatRound(2 * sh.radius)),
                      expandedRadius(sh)),
                expandedRadius(sh))

drawForRectangle(sh, targetArea, gc) ==
    DrawRegions(sh, gc, Gradient(sh.colour), ShadowCore(sh, targetArea),
                Bands(fexpanded(ShadowCore(sh, targetArea), expandedRadius(sh)),
                      expandedRadius(sh)),
                expandedRadius(sh))

(***************************************************************************)
(* Rectangles and shadows the rectangle specification draws from.          *)
(***************************************************************************)
MaxExtra == 2      \* target sides go up to 3 * MaxRadius + MaxExtra pixels

Targets == {[x |-> x, y |-> 0, w |-> w, h |-> h] :
               x \in {-3, 0, 1000000, 16777216},
               w \in 1..(3 * MaxRadius + MaxExtra), h \in 1..(3 * MaxRadius + MaxExtra)}

InitRect ==
    /\ shadow \in PathShadows
    /\ target \in Targets
    /\ path = NoPath
    /\ image = NoImage
    /\ heap = [b \in {} |-> 0]
    /\ g = NewGraphics(NoClip)
    /\ call = [op |-> "none"]

\* shadow.drawForRectangle (g, target) on a context with no calls yet
DrawForRectangleCall ==
    /\ g' = drawForRectangle(shadow, target, NewGraphics(g.clip))
    /\ call' = [op |-> "drawForRectangle"]
    /\ UNCHANGED <<shadow, image, heap, path, target>>

NextRect == DrawForRectangleCall

SpecRect == InitRect /\ [][NextRect]_vars

\* the rectangles handed to fillRect, in the order of the calls
Fills == [i \in {j \in 1..Len(g.calls) : g.calls[j].op = "fillRect"} |-> g.calls[i].area]

\* the expanded rectangle: the target inset by radius / 2, moved by the offset and
\* expanded by radius + radius / 2 (exact, in half pixels)
Expanded ==
    [x |-> 2 * target.x + 2 * shadow.offset.x - 2 * shadow.radius,
     y |-> 2 * target.y + 2 * shadow.offset.y - 2 * shadow.radius,
     w |-> 2 * target.w + 4 * shadow.radius,
     h |-> 2 * target.h + 4 * shadow.radius]

Inside(a, b) ==
    a.x >= b.x /\ a.y >= b.y /\ a.x + a.w <= b.x + b.w /\ a.y + a.h <= b.y + b.h

Overlapping(a, b) ==
    a.x < b.x + b.w /\ b.x < a.x + a.w /\ a.y < b.y + b.h /\ b.y < a.y + a.h

RECURSIVE SumArea(_, _)
SumArea(f, S) ==
    IF S = {} THEN 0
    ELSE LET i == CHOOSE j \in S : TRUE
         IN  f[i].w * f[i].h + SumArea(f, S \ {i})

\* nine rectangles inside the expanded rectangle, no two overlapping, covering its area
Tiling ==
    /\ Cardinality(DOMAIN Fills) = 9
    /\ \A i \in DOMAIN Fills : Fills[i].w >= 0 /\ Fills[i].h >= 0 /\ Inside(Fills[i], Expanded)
    /\ \A i \in DOMAIN Fills, j \in DOMAIN Fills : i # j => ~Overlapping(Fills[i], Fills[j])
    /\ SumArea(Fills, DOMAIN Fills) = Expanded.w * Expanded.h

\* width and height both exceed 2 * expandedRadius = 3 * radius
WideEnough == target.w > 3 * shadow.radius /\ target.h > 3 * shadow.radius

\* C3 as stated: for any radius >= 1, any offset and any target rectangle wider and
\* higher than 2 * expandedRadius, the nine filled regions tile the expanded rectangle.
C3_NineRegionsTile ==
    (call.op = "drawForRectangle" /\ shadow.radius >= 1 /\ WideEnough) => Tiling

\* every coordinate of the target and of the offset is below 2^20 in magnitude
SmallCoordinates ==
    /\ \A k \in DOMAIN target : Abs(target[k]) < 1048576
    /\ \A k \in DOMAIN shadow.offset : Abs(shadow.offset[k]) < 1048576

\* C3 amended: the nine regions tile the expanded rectangle for any radius >= 1 and any
\* target wider and higher than 2 * expandedRadius, provided the coordinates of the
\* target and of the offset are below 2^20 in magnitude, where every half-pixel value
\* of the computation is exact in float.
C3_NineRegionsTileExactFloats ==
    (call.op = "drawForRectangle" /\ shadow.radius >= 1 /\ WideEnough /\ SmallCoordinates)
        => Tiling

\* a 7 x 8 target was shadowed with the odd radius 1 far from the origin and a central
\* region of 6 x 7 pixels was filled last
C3_Witness ==
    /\ call.op = "drawForRectangle"
    /\ shadow.radius = 1
    /\ target.x = 1000000 /\ target.w = 7 /\ target.h = 8
    /\ Tiling
    /\ g.calls[Len(g.calls)].area.w = 12
    /\ g.calls[Len(g.calls)].area.h = 14

(***************************************************************************)
(* DropShadowEffect (lines 341-361).  scaleFactor and alpha are floats     *)
(* given in quarters (4 is 1.0).                                           *)
(***************************************************************************)
\* roundToInt ((float) n * scaleFactor)
Rescaled(n, scaleFactor) == RoundHalfEven(FloatRound(FloatRound(n) * scaleFactor), 4)

\* Colour::withMultipliedAlpha (multiplier)
withMultipliedAlpha(colour, multiplier) ==
    [colour EXCEPT !.alpha = Min(255, RoundHalfEven(FloatRound(multiplier * @), 4))]

\* ColourHelpers::floatToUInt8
floatToUInt8(v) ==
    IF v <= 0 THEN 0 ELSE IF v >= 4 THEN 255 ELSE RoundHalfEven(v * 255996, 4000)

\* Graphics::setOpacity
setOpacity(gc, opacity) ==
    [gc EXCEPT !.fill.alpha = floatToUInt8(opacity),
               !.calls = Append(@, [op |-> "setOpacity", opacity |-> opacity])]

\* lines 351-355: the copy s of the stored shadow, rescaled
RescaledShadow(sh, scaleFactor, alpha) ==
    [radius |-> Rescaled(sh.radius, scaleFactor),
     colour |-> withMultipliedAlpha(sh.colour, alpha),
     offset |-> [x |-> Rescaled(sh.offset.x, scaleFactor),
                 y |-> Rescaled(sh.offset.y, scaleFactor)]]

\* lines 357 and 360 for the rescaled shadow s
DrawEffectNoOpacity(s, img, hp, gc, alpha) ==
    {[heap |-> r.heap, g |-> drawImageAt(r.g, img, r.heap, 0, 0, FALSE),
      asserts |-> r.asserts, blurs |-> r.blurs, s |-> s] : r \in drawForImage(s, img, hp, gc)}

\* lines 357-360 for the rescaled shadow s
DrawEffect(s, img, hp, gc, alpha) ==
    {[heap |-> r.heap, g |-> drawImageAt(setOpacity(r.g, alpha), img, r.heap, 0, 0, FALSE),
      asserts |-> r.asserts, blurs |-> r.blurs, s |-> s] : r \in drawForImage(s, img, hp, gc)}

\* the effect without the setOpacity of line 359: the image is drawn with the
\* shadow colour's alpha still set on the context
applyEffectNoOpacity(sh, img, hp, gc, scaleFactor, alpha) ==
    DrawEffectNoOpacity(RescaledShadow(sh, scaleFactor, alpha), img, hp, gc, alpha)

applyEffect(sh, img, hp, gc, scaleFactor, alpha) ==
    DrawEffect(RescaledShadow(sh, scaleFactor, alpha), img, hp, gc, alpha)

\* DropShadowEffect(): the member is a default DropShadow
DefaultShadow == [colour |-> [rgb |-> "black", alpha |-> 144], radius |-> 4,
                  offset |-> [x |-> 0, y |-> 0]]

EffectOffsets == Offsets \cup {[x |-> 16777217, y |-> -16777216]}

EffectShadows ==
    {[colour |-> [rgb |-> "black", alpha |-> 128], radius |-> r, offset |-> o] :
        r \in 1..MaxRadius, o \in EffectOffsets}

Scales == {1, 2, 4, 6, 8}
Alphas == {0, 2, 4}

\* the images the effect is applied to: none, a 3 x 3 ARGB image with an opaque centre,
\* a 4 x 3 single-channel image with an opaque corner
EffectImages ==
    {[img |-> NoImage, data |-> <<>>],
     [img |-> [valid |-> TRUE, format |-> "ARGB", width |-> 3, height |-> 3,
               lineStride |-> 3, buf |-> 1],
      data |-> SourceData("ARGB", 3, 3, [p \in {<<1, 1>>} |-> 255])],
     [img |-> [valid |-> TRUE, format |-> "SingleChannel", width |-> 4, height |-> 3,
               lineStride |-> 4, buf |-> 1],
      data |-> SourceData("SingleChannel", 4, 3, [p \in {<<0, 0>>} |-> 255])]}

InitEffect ==
    /\ shadow = DefaultShadow
    /\ path = NoPath
    /\ target = NoClip
    /\ g = NewGraphics(NoClip)
    /\ call = [op |-> "none"]
    /\ \E e \in EffectImages :
         /\ image = e.img
         /\ heap = IF e.img.valid THEN [b \in {1} |-> [data |-> e.data, refs |-> 1]]
                                  ELSE [b \in {} |-> 0]

\* DropShadowEffect::setShadowProperties (lines 344-347)
setShadowProperties ==
    /\ \E newShadow \in EffectShadows : shadow' = newShadow
    /\ call' = [op |-> "setShadowProperties"]
    /\ UNCHANGED <<image, heap, g, path, target>>

\* DropShadowEffect::applyEffect (image, g, scaleFactor, alpha) on a context with no
\* calls yet
ApplyEffectCall ==
    /\ \E scaleFactor \in Scales, alpha \in Alphas :
         \E r \in applyEffect(shadow, image, heap, NewGraphics(g.clip), scaleFactor, alpha) :
            /\ heap' = r.heap
            /\ g' = r.g
            /\ call' = [op |-> "applyEffect", scaleFactor |-> scaleFactor, alpha |-> alpha,
                        asserts |-> r.asserts, blurs |-> r.blurs, s |-> r.s]
    /\ UNCHANGED <<shadow, image, path, target>>

NextEffect == setShadowProperties \/ ApplyEffectCall

SpecEffect == InitEffect /\ [][NextEffect]_vars

\* a drawImageAt as it shows: a mask with the fill that tints it, an image with the
\* opacity it is drawn at
Shown(c) ==
    IF c.fillAlphaChannelWithCurrentBrush THEN c
    ELSE [c EXCEPT !.fill = [rgb |-> "any", alpha |-> c.fill.alpha]]

RECURSIVE DrawOps(_)
DrawOps(calls) ==
    IF calls = <<>> THEN <<>>
    ELSE IF Head(calls).op = "drawImageAt" THEN <<Shown(Head(calls))>> \o DrawOps(Tail(calls))
    ELSE DrawOps(Tail(calls))

\* the draw operations of shadow.drawForImage (g, image) followed by the source image
\* drawn at (0, 0) as it is, that is at full opacity
DirectDrawOps ==
    {DrawOps(drawImageAt(setOpacity(r.g, 4), image, r.heap, 0, 0, FALSE).calls) :
        r \in drawForImage(shadow, image, heap, NewGraphics(g.clip))}

AppliedAtOne == call.op = "applyEffect" /\ call.scaleFactor = 4 /\ call.alpha = 4

\* C5 as stated: applyEffect with scaleFactor 1.0 and alpha 1.0 makes the draw
\* operations of drawForImage of the stored shadow followed by the source image at
\* (0, 0): radius, offset and colour unchanged, the shadow drawn before the image.
C5_ApplyAtOneIsDirectDraw ==
    AppliedAtOne =>
        /\ call.s = shadow
        /\ DrawOps(g.calls) \in DirectDrawOps

\* radius and offset of the stored shadow are exact as floats
ExactAsFloat ==
    /\ Abs(shadow.radius) <= 16777216
    /\ Abs(shadow.offset.x) <= 16777216
    /\ Abs(shadow.offset.y) <= 16777216

\* C5 amended: the same, for a stored shadow whose radius and offset components are at
\* most 2^24 in magnitude (beyond, the conversion to float rounds them).
C5_ApplyAtOneIsDirectDrawExact ==
    (AppliedAtOne /\ ExactAsFloat) =>
        /\ call.s = shadow
        /\ DrawOps(g.calls) \in DirectDrawOps

\* the effect was applied at 1.0 / 1.0 to a valid image with a translucent shadow at
\* (3, -2): the mask first, then the image at full opacity
C5_Witness ==
    /\ AppliedAtOne
    /\ image.valid
    /\ shadow.offset = [x |-> 3, y |-> -2]
    /\ shadow.colour.alpha = 128
    /\ Len(DrawOps(g.calls)) = 2
    /\ DrawOps(g.calls)[1].fillAlphaChannelWithCurrentBrush
    /\ DrawOps(g.calls)[1].x = 3
    /\ DrawOps(g.calls)[2].fill.alpha = 255

\* C10: for a stored shadow of radius > 0, applyEffect with scaleFactor > 0 reaches
\* drawForImage with a rescaled radius > 0, so its assertion radius > 0 holds.
C10_RescaledRadiusPositive ==
    (call.op = "applyEffect" /\ shadow.radius > 0 /\ call.scaleFactor > 0) =>
        /\ call.s.radius > 0
        /\ "radius > 0" \notin call.asserts
====
